---- MODULE Spec2Model ----
(***************************************************************************)
(* A model of the smart-rent data pipeline:                                *)
(*   - the collector, ml/suumo_scraper.py (fetch with retry, page loop,    *)
(*     per-building extraction, final write);                              *)
(*   - the normaliser, ml/data_preprocessor.py (numeric columns, floor     *)
(*     column, address decomposition).                                     *)
(* Texts are sequences of one-character tokens.  The Japanese characters   *)
(* of the source are written with ASCII token names:                       *)
(*   "MAN" = U+4E07 (man, ten thousand)   "EN"  = U+5186 (yen)             *)
(*   "CHI" = U+5730, "KA" = U+4E0B  (CHI KA = basement)                    *)
(*   "KAI" = U+968E (floor)               "TATE" = U+5EFA (storeys)        *)
(***************************************************************************)
EXTENDS Integers, Sequences, FiniteSets, TLC

VARIABLES
    pc,                 \* position of the collector run
    max_pages,          \* scrape_suumo_listings' parameter
    page_num,           \* the page loop's index
    tries,              \* retry's _tries for the fetch call in progress
    delay,              \* retry's _delay for the fetch call in progress
    n_properties,       \* len(property_elements) of the page being parsed
    property_idx,       \* index of the next building of the page
    all_listings,       \* the accumulator
    returned,           \* the value scrape_suumo_listings returned (once pc is done)
    csv,                \* the raw dataset files written, in order
    page_status,        \* history: what became of each page
    attempts,           \* history: requests issued by the fetch call in progress
    waits,              \* history: sleeps made by the fetch call in progress
    paused,             \* history: seconds slept since the last request
    last_request_page,  \* history: the page of the last request issued
    last_element,       \* history: the building processed last
    property_df,        \* the frame handed to a normaliser stage (its rows)
    result_df,          \* the frame the stage returned
    parsed,             \* process_floor_data: the floor column after apply
    exc,                \* the exception the stage raised, or None
    npc                 \* position of the normaliser stage

collector_vars == <<pc, max_pages, page_num, tries, delay, n_properties,
                    property_idx, all_listings, returned, csv, page_status,
                    attempts, waits, paused, last_request_page, last_element>>

normaliser_vars == <<property_df, result_df, parsed, exc, npc>>

vars == <<collector_vars, normaliser_vars>>

----------------------------------------------------------------------------
(* Bounds of the model *)

MaxPages == 3
MaxBuildings == 2
MaxRooms == 2
MaxDefects == 1
MaxListings == 3

(* Program constants *)

RetryTries == 3
RetryDelay == 10
RetryBackoff == 2
InterRequestDelay == 3
RoomColumns == 6

None == "None"

\* last_element before the first building of a page
NoElement == [idx |-> 0, exc |-> None, entered |-> FALSE, rooms |-> <<>>]

----------------------------------------------------------------------------
(* The markup of a building container and of a room row, as far as the     *)
(* extraction reads it.                                                    *)

BuildingClasses == {"ui-pct", "content-title", "detail-col1", "detail-col2",
                    "detail-col3", "cassetteitem_other"}

RoomClasses == {"other-emphasis", "price--administration", "price--deposit",
                "price--gratuity", "madori", "menseki"}

\* a room row: the number of its td cells and the classed elements it lacks
RoomElements ==
    { r \in [tds : (RoomColumns - 1 - MaxDefects)..RoomColumns,
             absent : SUBSET RoomClasses] :
        Cardinality(r.absent) + (RoomColumns - r.tds) <= MaxDefects }

RoomRows == UNION { [1..n -> RoomElements] : n \in 0..MaxRooms }

\* a building container: the classed elements it lacks, the number of
\* transit descriptors in detail-col2, the number of divs in detail-col3
BuildingHeaders ==
    { b \in [absent : SUBSET BuildingClasses, transit : 0..2, agefloors : 1..3] :
        Cardinality(b.absent) + (IF b.transit = 1 THEN 0 ELSE 1)
          + (IF b.agefloors = 2 THEN 0 ELSE 1) <= MaxDefects }

----------------------------------------------------------------------------
(* extract_property_details: the exception it raises, or None *)

extract_property_details(b) ==
    IF "ui-pct" \in b.absent THEN "AttributeError"
    ELSE IF "content-title" \in b.absent THEN "AttributeError"
    ELSE IF "detail-col1" \in b.absent THEN "AttributeError"
    ELSE IF "detail-col2" \in b.absent THEN "AttributeError"
    ELSE IF b.transit = 0 THEN "IndexError"
    ELSE IF "detail-col3" \in b.absent THEN "AttributeError"
    ELSE IF b.agefloors # 2 THEN "TypeError"
    ELSE None

(* extract_room_details: the exception it raises, or None *)

extract_room_details(r) ==
    IF r.tds < 3 THEN "IndexError"
    ELSE IF r.tds < 4 THEN "IndexError"
    ELSE IF "other-emphasis" \in r.absent THEN "AttributeError"
    ELSE IF "price--administration" \in r.absent THEN "AttributeError"
    ELSE IF r.tds < 5 THEN "IndexError"
    ELSE IF "price--deposit" \in r.absent THEN "AttributeError"
    ELSE IF "price--gratuity" \in r.absent THEN "AttributeError"
    ELSE IF r.tds < 6 THEN "IndexError"
    ELSE IF "madori" \in r.absent THEN "AttributeError"
    ELSE IF "menseki" \in r.absent THEN "AttributeError"
    ELSE None

\* the room loop of one building: rooms are extracted in order until one
\* raises; the listings appended and the exception that ended the loop
RECURSIVE RoomLoop(_, _, _)
RoomLoop(outcomes, i, acc) ==
    IF i > Len(outcomes) THEN [listings |-> acc, exc |-> None]
    ELSE IF outcomes[i] # None THEN [listings |-> acc, exc |-> outcomes[i]]
    ELSE RoomLoop(outcomes, i + 1, Append(acc, i))

\* the body of the try block for one building: the rooms appended and the
\* exception that left the block, or None
TryBlock(details, other, outcomes) ==
    IF details # None THEN [listings |-> <<>>, exc |-> details]
    ELSE IF ~other THEN [listings |-> <<>>, exc |-> "AttributeError"]
    ELSE RoomLoop(outcomes, 1, <<>>)

----------------------------------------------------------------------------
(* The collector run *)

\* the head of the page loop, reached with the next index k
LoopHead(k) ==
    IF k <= max_pages
    THEN /\ pc' = "request"
         /\ page_num' = k
         /\ tries' = RetryTries
         /\ delay' = RetryDelay
         /\ attempts' = 0
         /\ waits' = <<>>
         /\ last_element' = NoElement
    ELSE /\ pc' = "return"
         /\ UNCHANGED <<page_num, tries, delay, attempts, waits, last_element>>

NormaliserIdle ==
    /\ property_df = <<>>
    /\ result_df = <<>>
    /\ parsed = <<>>
    /\ exc = None
    /\ npc = "idle"

Init ==
    /\ NormaliserIdle
    /\ max_pages \in 1..MaxPages
    /\ pc = "request"
    /\ page_num = 1
    /\ tries = RetryTries
    /\ delay = RetryDelay
    /\ n_properties = 0
    /\ property_idx = 0
    /\ all_listings = <<>>
    /\ returned = <<>>
    /\ csv = <<>>
    /\ page_status = [k \in 1..MaxPages |-> "unvisited"]
    /\ attempts = 0
    /\ waits = <<>>
    /\ paused = 0
    /\ last_request_page = 0
    /\ last_element = NoElement

\* one attempt of fetch_suumo_page succeeds: the page holds n containers
RequestOK ==
    /\ pc = "request"
    /\ UNCHANGED normaliser_vars
    /\ \E n \in 0..MaxBuildings :
         /\ n_properties' = n
         /\ property_idx' = 1
    /\ pc' = "parse"
    /\ attempts' = attempts + 1
    /\ paused' = 0
    /\ last_request_page' = page_num
    /\ UNCHANGED <<max_pages, page_num, tries, delay, all_listings, returned,
                   csv, page_status, waits, last_element>>

\* one attempt fails: retry counts it and either re-raises or backs off
RequestFail ==
    /\ pc = "request"
    /\ UNCHANGED normaliser_vars
    /\ tries' = tries - 1
    /\ pc' = IF tries - 1 = 0 THEN "except" ELSE "backoff"
    /\ attempts' = attempts + 1
    /\ paused' = 0
    /\ last_request_page' = page_num
    /\ UNCHANGED <<max_pages, page_num, delay, n_properties, property_idx,
                   all_listings, returned, csv, page_status, waits,
                   last_element>>

\* Backoff with the multiplication by backoff left out
Backoff_NoDoubling ==
    /\ pc = "backoff"
    /\ UNCHANGED normaliser_vars
    /\ waits' = Append(waits, delay)
    /\ delay' = delay
    /\ paused' = paused + delay
    /\ pc' = "request"
    /\ UNCHANGED <<max_pages, page_num, tries, n_properties, property_idx,
                   all_listings, returned, csv, page_status, attempts,
                   last_request_page, last_element>>

\* retry sleeps _delay and multiplies it by backoff
Backoff ==
    /\ pc = "backoff"
    /\ UNCHANGED normaliser_vars
    /\ waits' = Append(waits, delay)
    /\ delay' = delay * RetryBackoff
    /\ paused' = paused + delay
    /\ pc' = "request"
    /\ UNCHANGED <<max_pages, page_num, tries, n_properties, property_idx,
                   all_listings, returned, csv, page_status, attempts,
                   last_request_page, last_element>>

\* FetchFailed with break in the place of continue
FetchFailed_Break ==
    /\ pc = "except"
    /\ UNCHANGED normaliser_vars
    /\ page_status' = [page_status EXCEPT ![page_num] = "failed"]
    /\ pc' = "return"
    /\ UNCHANGED <<max_pages, page_num, tries, delay, n_properties,
                   property_idx, all_listings, returned, csv, attempts, waits,
                   paused, last_request_page, last_element>>

\* except RequestException: log and continue with the next page
FetchFailed ==
    /\ pc = "except"
    /\ UNCHANGED normaliser_vars
    /\ page_status' = [page_status EXCEPT ![page_num] = "failed"]
    /\ LoopHead(page_num + 1)
    /\ UNCHANGED <<max_pages, n_properties, property_idx, all_listings,
                   returned, csv, paused, last_request_page>>

\* ParsePage with the test for an empty page left out
ParsePage_NoStop ==
    /\ pc = "parse"
    /\ UNCHANGED normaliser_vars
    /\ page_status' = [page_status EXCEPT ![page_num] =
                         IF n_properties = 0 THEN "empty" ELSE "ok"]
    /\ pc' = IF n_properties = 0 THEN "sleep" ELSE "extract"
    /\ UNCHANGED <<max_pages, page_num, tries, delay, n_properties,
                   property_idx, all_listings, returned, csv, attempts, waits,
                   paused, last_request_page, last_element>>

\* soup.find_all(class_="cassetteitem"): no container ends the loop
ParsePage ==
    /\ pc = "parse"
    /\ UNCHANGED normaliser_vars
    /\ IF n_properties = 0
       THEN /\ page_status' = [page_status EXCEPT ![page_num] = "empty"]
            /\ pc' = "return"
       ELSE /\ page_status' = [page_status EXCEPT ![page_num] = "ok"]
            /\ pc' = "extract"
    /\ UNCHANGED <<max_pages, page_num, tries, delay, n_properties,
                   property_idx, all_listings, returned, csv, attempts, waits,
                   paused, last_request_page, last_element>>

\* what the try block meets in a building container: the outcome of
\* extract_property_details and whether line 111 finds the room table
HeaderOutcomes ==
    { [details |-> extract_property_details(b),
       other   |-> "cassetteitem_other" \notin b.absent] : b \in BuildingHeaders }

\* what the room loop meets in the room rows of a building, row by row
RoomRowOutcomes ==
    { [i \in 1..Len(rooms) |-> extract_room_details(rooms[i])] : rooms \in RoomRows }

\* one iteration of the loop over property_elements: the whole try block
\* for one building.  The room rows are read only when line 111 is reached.
ExtractProperty ==
    /\ pc = "extract"
    /\ UNCHANGED normaliser_vars
    /\ \E h \in HeaderOutcomes :
         LET entered == h.details = None /\ h.other
         IN  \E outcomes \in (IF entered THEN RoomRowOutcomes ELSE {<<>>}) :
               LET block == TryBlock(h.details, h.other, outcomes)
               IN  /\ Len(all_listings) + Len(outcomes) <= MaxListings
                   /\ all_listings' = all_listings \o
                         [i \in 1..Len(block.listings) |->
                             <<page_num, property_idx, block.listings[i]>>]
                   /\ last_element' = [idx |-> property_idx, exc |-> block.exc,
                                       entered |-> entered, rooms |-> outcomes]
                   /\ pc' = IF block.exc \in {None, "AttributeError"}
                            THEN (IF property_idx = n_properties
                                  THEN "sleep" ELSE "extract")
                            ELSE "crashed"
    /\ property_idx' = property_idx + 1
    /\ UNCHANGED <<max_pages, page_num, tries, delay, n_properties, returned,
                   csv, page_status, attempts, waits, paused,
                   last_request_page>>

\* InterRequestSleep with the sleep left out
InterRequestSleep_NoPause ==
    /\ pc = "sleep"
    /\ UNCHANGED normaliser_vars
    /\ paused' = paused
    /\ LoopHead(page_num + 1)
    /\ UNCHANGED <<max_pages, n_properties, property_idx, all_listings,
                   returned, csv, page_status, last_request_page>>

\* time.sleep(3) at the end of a parsed page
InterRequestSleep ==
    /\ pc = "sleep"
    /\ UNCHANGED normaliser_vars
    /\ paused' = paused + InterRequestDelay
    /\ LoopHead(page_num + 1)
    /\ UNCHANGED <<max_pages, n_properties, property_idx, all_listings,
                   returned, csv, page_status, last_request_page>>

\* return all_listings
Return ==
    /\ pc = "return"
    /\ UNCHANGED normaliser_vars
    /\ returned' = all_listings
    /\ pc' = "done"
    /\ UNCHANGED <<max_pages, page_num, tries, delay, n_properties,
                   property_idx, all_listings, csv, page_status, attempts,
                   waits, paused, last_request_page, last_element>>

\* a collector that persists the accumulator after each page as well
save_listings_to_csv_EachPage ==
    /\ pc \in {"sleep", "done"}
    /\ UNCHANGED normaliser_vars
    /\ csv' = Append(csv, IF pc = "done" THEN returned ELSE all_listings)
    /\ pc' = IF pc = "done" THEN "saved" ELSE pc
    /\ UNCHANGED <<max_pages, page_num, tries, delay, n_properties,
                   property_idx, all_listings, returned, page_status, attempts,
                   waits, paused, last_request_page, last_element>>

\* save_listings_to_csv(suumo_listings)
save_listings_to_csv ==
    /\ pc = "done"
    /\ UNCHANGED normaliser_vars
    /\ csv' = Append(csv, returned)
    /\ pc' = "saved"
    /\ UNCHANGED <<max_pages, page_num, tries, delay, n_properties,
                   property_idx, all_listings, returned, page_status, attempts,
                   waits, paused, last_request_page, last_element>>

Next ==
    \/ RequestOK
    \/ RequestFail
    \/ Backoff
    \/ FetchFailed
    \/ ParsePage
    \/ ExtractProperty
    \/ InterRequestSleep
    \/ Return
    \/ save_listings_to_csv

Spec == Init /\ [][Next]_vars

----------------------------------------------------------------------------
(* Properties of the collector *)

IsPrefix(a, b) == Len(a) <= Len(b) /\ SubSeq(b, 1, Len(a)) = a

Finished == pc \in {"done", "saved"}

\* a step that issues one request to the site
RequestStep == pc = "request" /\ pc' # "request"

\* C1: when every attempt at page k has failed, only page k is skipped: the
\* next step of the run is the first request for page k+1 (the return, when
\* k is the last page), the accumulator is left as it was, no step of the run
\* removes or reorders a listing already accumulated, and the value returned
\* is the accumulator.
C1_FailedPageOnlySkipped ==
    [][ /\ IsPrefix(all_listings, all_listings')
        /\ pc = "except" =>
             /\ all_listings' = all_listings
             /\ page_status'[page_num] = "failed"
             /\ IF page_num < max_pages
                THEN pc' = "request" /\ page_num' = page_num + 1 /\ attempts' = 0
                ELSE pc' = "return"
        /\ pc' = "done" => returned' = all_listings ]_vars

\* a run in which page 2 failed on every attempt, page 3 was fetched after
\* it, and the listings of pages 1 and 3 were returned
C1_Witness ==
    /\ pc = "done"
    /\ page_status = <<"ok", "failed", "ok">>
    /\ \E i, j \in 1..Len(returned) : returned[i][1] = 1 /\ returned[j][1] = 3

\* C2: a fetched page with no building container ends pagination: the next
\* step is the return, no request is issued afterwards (no higher page is
\* ever visited), the value returned is the accumulator as it stood, all of
\* it collected from pages before the empty one; a page whose fetch failed
\* is followed by the next page.
C2_EmptyPageStops ==
    /\ [] (\A k \in 1..MaxPages : page_status[k] = "empty" =>
             /\ pc \in {"return", "done", "saved"}
             /\ page_num = k /\ last_request_page = k
             /\ \A j \in (k + 1)..MaxPages : page_status[j] = "unvisited"
             /\ \A i \in 1..Len(all_listings) : all_listings[i][1] < k
             /\ Finished => returned = all_listings)
    /\ [][ /\ (pc = "parse" /\ n_properties = 0) =>
                (pc' = "return" /\ all_listings' = all_listings
                   /\ page_status'[page_num] = "empty")
           /\ (pc = "parse" /\ n_properties > 0) => pc' = "extract"
           /\ (pc = "except" /\ page_num < max_pages) =>
                (pc' = "request" /\ page_status'[page_num] = "failed") ]_vars

\* a three-page run stopped by an empty page 2, page 3 never visited, the
\* listings of page 1 returned
C2_Witness ==
    /\ pc = "done"
    /\ max_pages = 3
    /\ page_status = <<"ok", "empty", "unvisited">>
    /\ Len(returned) > 0

RECURSIVE Pow2(_)
Pow2(n) == IF n = 0 THEN 1 ELSE 2 * Pow2(n - 1)

\* C3: a fetch makes at most 3 attempts; the i-th failed attempt below the
\* third is followed by a wait of base delay * 2^(i-1) before the next
\* attempt; a successful attempt returns at once (the page is parsed next);
\* the third failed attempt raises to the caller with no wait and no fourth
\* attempt.
C3_RetryPolicy ==
    /\ [] /\ attempts <= 3
          /\ waits = [i \in 1..Len(waits) |-> RetryDelay * Pow2(i - 1)]
          /\ pc = "request" => Len(waits) = attempts /\ attempts < 3
          /\ pc = "backoff" => Len(waits) = attempts - 1 /\ attempts \in {1, 2}
          /\ pc = "except" => attempts = 3 /\ waits = <<RetryDelay, 2 * RetryDelay>>
          /\ pc \in {"parse", "extract", "sleep"} =>
               Len(waits) = attempts - 1 /\ attempts \in 1..3
    /\ [][ RequestStep =>
             /\ attempts' = attempts + 1
             /\ pc' \in {"parse", "backoff", "except"}
             /\ pc' = "except" <=> (pc' # "parse" /\ attempts' = 3) ]_vars

\* the third attempt has failed after waits of 10 and 20 seconds
C3_Witness == pc = "except" /\ attempts = 3 /\ waits = <<10, 20>>

\* C4: on the building processed last, when no extraction raised anything
\* but a missing-element error, every room whose own extraction succeeds has
\* its listing in the accumulator.
C4_SiblingRoomsExtracted ==
    (last_element.entered
       /\ \A i \in 1..Len(last_element.rooms) :
            last_element.rooms[i] \in {None, "AttributeError"})
    => \A i \in 1..Len(last_element.rooms) :
         last_element.rooms[i] = None =>
           \E n \in 1..Len(all_listings) :
             all_listings[n] = <<page_num, last_element.idx, i>>

\* C5: no extraction failure ends the run before the end of the page loop.
C5_NoFailureIsFatal == pc # "crashed"

\* C10 as claimed: page indices never decrease from one request to the next,
\* and every request but the first of the run is preceded by a pause since
\* the request before it.
C10_PauseBetweenRequests ==
    [][ RequestStep =>
          /\ last_request_page <= page_num
          /\ last_request_page # 0 => paused > 0 ]_vars

\* C10 amended: as above, except that the first request of a page follows
\* with no pause the last failed attempt of the page before it, when that
\* page was skipped.
C10_PauseExceptAfterSkippedPage ==
    [][ RequestStep =>
          /\ last_request_page <= page_num
          /\ last_request_page' = page_num
          /\ last_request_page # 0 =>
               \/ (attempts > 0 /\ paused = delay \div RetryBackoff)
               \/ (attempts = 0 /\ page_status[page_num - 1] = "ok"
                     /\ paused = InterRequestDelay)
               \/ (attempts = 0 /\ page_status[page_num - 1] = "failed"
                     /\ paused = 0) ]_vars

\* page 2 has just been requested for the third time: after the
\* inter-request delay that followed page 1, and after two backoff waits
C10_Witness ==
    /\ pc = "parse" /\ page_num = 2 /\ page_status[1] = "ok"
    /\ attempts = 3 /\ waits = <<10, 20>> /\ paused = 0


\* the page loop of scrape_suumo_listings is running
InPageLoop == pc \in {"request", "backoff", "except", "parse", "extract", "sleep"}

\* C11: the raw dataset is written at most once and only after the page loop
\* has ended: while pages are fetched nothing is persisted and the
\* accumulator only grows by appends (no listing in it is removed, altered
\* or reordered); the rows written are the final accumulator, in order; a
\* run that aborts inside the loop makes no further step and writes nothing.
C11_WrittenOnceAtEnd ==
    /\ [] /\ Len(csv) <= 1
          /\ (InPageLoop \/ pc \in {"return", "done", "crashed"}) => csv = <<>>
          /\ pc = "saved" => csv = <<all_listings>>
    /\ [][ /\ IsPrefix(all_listings, all_listings')
           /\ pc # "crashed"
           /\ ~InPageLoop => all_listings' = all_listings
           /\ csv' # csv =>
                /\ pc = "done" /\ pc' = "saved"
                /\ csv = <<>>
                /\ csv' = <<all_listings>> ]_vars

\* a run that wrote, after its page loop, the listings of two pages
C11_Witness ==
    /\ pc = "saved"
    /\ csv = <<all_listings>>
    /\ \E i, j \in 1..Len(all_listings) :
         i < j /\ all_listings[i][1] < all_listings[j][1]

----------------------------------------------------------------------------
(* Texts: sequences of one-character tokens, and Python's str operations   *)

DigitToks == <<"0", "1", "2", "3", "4", "5", "6", "7", "8", "9">>

IsDigit(t) == \E d \in 1..10 : DigitToks[d] = t

DigitVal(t) == (CHOOSE d \in 1..10 : DigitToks[d] = t) - 1

\* pat occurs in s at position i
MatchAt(s, i, pat) ==
    /\ i + Len(pat) - 1 <= Len(s)
    /\ \A k \in 1..Len(pat) : s[i + k - 1] = pat[k]

\* Python's  pat in s
Contains(s, pat) == \E i \in 1..Len(s) : MatchAt(s, i, pat)

Drop(s, n) == SubSeq(s, n + 1, Len(s))

\* Python's  s.replace(pat, rep): every occurrence, left to right, without
\* overlap (pat is not empty)
RECURSIVE StrReplace(_, _, _)
StrReplace(s, pat, rep) ==
    IF s = <<>> THEN <<>>
    ELSE IF MatchAt(s, 1, pat) THEN rep \o StrReplace(Drop(s, Len(pat)), pat, rep)
    ELSE <<Head(s)>> \o StrReplace(Tail(s), pat, rep)

\* Python's  s.split(sep) for a one-character sep: the pieces between the
\* separators, empty pieces kept
RECURSIVE Split(_, _)
Split(s, sep) ==
    IF \A i \in 1..Len(s) : s[i] # sep THEN <<s>>
    ELSE LET i == CHOOSE j \in 1..Len(s) :
                    s[j] = sep /\ \A k \in 1..(j - 1) : s[k] # sep
         IN  <<SubSeq(s, 1, i - 1)>> \o Split(Drop(s, i), sep)

----------------------------------------------------------------------------
(* Floating-point values.  The values met here are short decimals, which   *)
(* are kept exactly: m * 10^-e, with no trailing zero in the fraction. NaN *)
(* is the missing value.                                                   *)

NaN == [nan |-> TRUE, m |-> 0, e |-> 0]

RECURSIVE Pow10(_)
Pow10(n) == IF n = 0 THEN 1 ELSE 10 * Pow10(n - 1)

RECURSIVE Dec(_, _)
Dec(m, e) ==
    IF e > 0 /\ m % 10 = 0 THEN Dec(m \div 10, e - 1)
    ELSE [nan |-> FALSE, m |-> m, e |-> e]

DecNeg(a) == Dec(0 - a.m, a.e)

DecAdd(a, b) ==
    LET e == IF a.e > b.e THEN a.e ELSE b.e
    IN  Dec(a.m * Pow10(e - a.e) + b.m * Pow10(e - b.e), e)

DecHalf(a) == Dec(a.m * 5, a.e + 1)

DecLeq(a, b) ==
    LET e == IF a.e > b.e THEN a.e ELSE b.e
    IN  a.m * Pow10(e - a.e) <= b.m * Pow10(e - b.e)

RECURSIVE DigitsValue(_)
DigitsValue(s) ==
    IF s = <<>> THEN 0 ELSE 10 * DigitsValue(SubSeq(s, 1, Len(s) - 1)) + DigitVal(s[Len(s)])

\* Python's float(s) on the texts of the model (an optional minus sign,
\* digits, at most one decimal point, at least one digit): the value, or
\* NaN standing for the ValueError it raises.  The caller tells the two
\* apart by PyFloatFails.
UnsignedPart(s) == IF s # <<>> /\ s[1] = "-" THEN Tail(s) ELSE s

PyFloatFails(s) ==
    LET u == UnsignedPart(s)
    IN  \/ \E i \in 1..Len(u) : ~IsDigit(u[i]) /\ u[i] # "."
        \/ Cardinality({i \in 1..Len(u) : u[i] = "."}) > 1
        \/ \A i \in 1..Len(u) : ~IsDigit(u[i])

PyFloat(s) ==
    LET u    == UnsignedPart(s)
        dots == {i \in 1..Len(u) : u[i] = "."}
        e    == IF dots = {} THEN 0 ELSE Len(u) - (CHOOSE i \in dots : TRUE)
        m    == DigitsValue(SelectSeq(u, IsDigit))
    IN  IF PyFloatFails(s) THEN NaN
        ELSE IF u = s THEN Dec(m, e) ELSE Dec(0 - m, e)

----------------------------------------------------------------------------
(* The normaliser stages work on a frame: a sequence of rows, each row a   *)
(* record of the columns the stage reads.                                  *)

CollectorIdle ==
    /\ pc = "idle"
    /\ max_pages = 0
    /\ page_num = 0
    /\ tries = 0
    /\ delay = 0
    /\ n_properties = 0
    /\ property_idx = 0
    /\ all_listings = <<>>
    /\ returned = <<>>
    /\ csv = <<>>
    /\ page_status = <<>>
    /\ attempts = 0
    /\ waits = <<>>
    /\ paused = 0
    /\ last_request_page = 0
    /\ last_element = NoElement

\* the decimal text of n tenths, as the site prints an amount
RECURSIVE NatText(_)
NatText(n) ==
    IF n < 10 THEN <<DigitToks[n + 1]>>
    ELSE NatText(n \div 10) \o <<DigitToks[(n % 10) + 1]>>

TenthsText(t) ==
    IF t % 10 = 0 THEN NatText(t \div 10)
    ELSE NatText(t \div 10) \o <<".">> \o NatText(t % 10)

----------------------------------------------------------------------------
(* clean_numeric_columns *)

MaxAmounts == 1
AmountStep == 125
MaxAge == 2
MaxStoreys == 2

ManEn == <<"MAN", "EN">>
En == <<"EN">>
M2 == <<"m", "2">>
Dash == <<"-">>

\* the unit suffix the site prints after each amount
Unit(col) ==
    CASE col = "rent" -> ManEn
      [] col = "management_fee" -> En
      [] col = "deposit" -> ManEn
      [] col = "key_money" -> ManEn
      [] col = "area" -> M2

Amounts == { k * AmountStep : k \in 0..MaxAmounts }

AmountTexts(col) == { TenthsText(a) \o Unit(col) : a \in Amounts } \cup {Dash}

\* "SHIN CHIKU" = newly built; "CHIKU n NEN" = built n years ago
AgeTexts ==
    {<<"SHIN", "CHIKU">>} \cup { <<"CHIKU">> \o NatText(n) \o <<"NEN">> : n \in 1..MaxAge }

\* "HIRA YA" = single storey; "n KAI TATE" = n storeys
StoreyTexts ==
    {<<"HIRA", "YA">>} \cup { NatText(n) \o <<"KAI", "TATE">> : n \in 1..MaxStoreys }

\* Series.replace(old, new): a cell equal to old becomes new
SeriesReplace(text, old, new) == IF text = old THEN new ELSE text

\* a cell of astype(float): whether the conversion raises, and the value
FloatCell(text) == [fails |-> PyFloatFails(text), val |-> PyFloat(text)]

\* the start of the first digit run of the text that pat follows at once,
\* 0 when there is none: the match of (\d+)pat, and of (\d+) when pat is empty
DigitRunEnd(s, i) ==
    CHOOSE j \in i..Len(s) :
        /\ \A k \in i..j : IsDigit(s[k])
        /\ (j = Len(s) \/ ~IsDigit(s[j + 1]))

DigitRunStart(s, pat) ==
    LET starts == { i \in 1..Len(s) :
                      /\ IsDigit(s[i])
                      /\ pat = <<>> \/ MatchAt(s, DigitRunEnd(s, i) + 1, pat) }
    IN  IF starts = {} THEN 0
        ELSE CHOOSE i \in starts : \A j \in starts : i <= j

\* a cell of str.extract(r"(\d+)pat").astype(int): no match is a missing
\* value, which astype(int) refuses
IntCell(text, pat) ==
    LET i == DigitRunStart(text, pat)
    IN  IF i = 0 THEN [fails |-> TRUE, val |-> 0]
        ELSE [fails |-> FALSE,
              val |-> DigitsValue(SubSeq(text, i, DigitRunEnd(text, i)))]

\* the assignments of lines 13-21, in order: the column written
CleanedColumns == <<"rent", "management_fee", "deposit", "key_money", "area",
                    "building_age", "total_floors">>

\* the right-hand side of the assignment to col, for one row
CleanCell(col, row) ==
    CASE col = "rent" -> FloatCell(StrReplace(row.rent, ManEn, <<>>))
      [] col = "management_fee" ->
            FloatCell(SeriesReplace(StrReplace(row.management_fee, En, <<>>), Dash, <<"0">>))
      [] col = "deposit" ->
            FloatCell(SeriesReplace(StrReplace(row.deposit, ManEn, <<>>), Dash, <<"0">>))
      [] col = "key_money" ->
            FloatCell(SeriesReplace(StrReplace(row.key_money, ManEn, <<>>), Dash, <<"0">>))
      [] col = "area" -> FloatCell(StrReplace(row.area, M2, <<>>))
      [] col = "building_age" ->
            IntCell(StrReplace(row.age, <<"SHIN", "CHIKU">>, <<"1">>), <<>>)
      [] col = "total_floors" ->
            IntCell(StrReplace(row.total_floors, <<"HIRA", "YA">>,
                               <<"1", "KAI", "TATE">>), <<"KAI", "TATE">>)

\* the index in CleanedColumns of the first assignment that raises on the
\* frame, Len(CleanedColumns) + 1 when none does
FirstRaising(df) ==
    LET bad == { c \in 1..Len(CleanedColumns) :
                   \E r \in 1..Len(df) : CleanCell(CleanedColumns[c], df[r]).fails }
    IN  IF bad = {} THEN Len(CleanedColumns) + 1
        ELSE CHOOSE c \in bad : \A d \in bad : c <= d

\* the frame after the assignments before the n-th: per row, the columns
\* written so far
CleanedUpTo(df, n) ==
    [r \in 1..Len(df) |->
        [c \in { CleanedColumns[k] : k \in 1..(n - 1) } |-> CleanCell(c, df[r]).val]]

InitNumeric ==
    /\ CollectorIdle
    /\ property_df \in
         { <<row>> : row \in [rent : AmountTexts("rent"),
                              management_fee : AmountTexts("management_fee"),
                              deposit : AmountTexts("deposit"),
                              key_money : AmountTexts("key_money"),
                              area : AmountTexts("area"),
                              age : AgeTexts,
                              total_floors : StoreyTexts] }
    /\ result_df = <<>>
    /\ parsed = <<>>
    /\ exc = None
    /\ npc = "call"

clean_numeric_columns ==
    /\ npc = "call"
    /\ LET n == FirstRaising(property_df)
       IN  /\ result_df' = CleanedUpTo(property_df, n)
           /\ IF n > Len(CleanedColumns)
              THEN exc' = None /\ npc' = "returned"
              ELSE exc' = "ValueError" /\ npc' = "raised"
    /\ UNCHANGED <<property_df, parsed, collector_vars>>

NextNumeric == clean_numeric_columns

SpecNumeric == InitNumeric /\ [][NextNumeric]_vars

\* column col of row r was converted by the call
Converted(col, r) == col \in DOMAIN result_df[r]

\* C6: after clean_numeric_columns, in each of the five amount columns a
\* cell that held a decimal number followed by the column's unit holds that
\* number, and a cell that held "-" holds 0.0; the conversion of neither
\* raised.
C6_AmountsAndSentinel ==
    npc \in {"returned", "raised"} =>
      \A r \in 1..Len(property_df) :
        \A col \in {"rent", "management_fee", "deposit", "key_money", "area"} :
          /\ \A a \in Amounts :
               property_df[r][col] = TenthsText(a) \o Unit(col) =>
                 Converted(col, r) /\ result_df[r][col] = Dec(a, 1)
          /\ property_df[r][col] = Dash =>
               Converted(col, r) /\ result_df[r][col] = Dec(0, 0)

----------------------------------------------------------------------------
(* process_floor_data.  A floor cell is a text, or Missing.                *)

MaxFloorLen == 5
MaxFloor == 2
MaxFloorRows == 3

Missing == <<"NaN">>

ChiKa == <<"CHI", "KA">>
Kai == <<"KAI">>

FloorAlphabet == {"1", "2", "-", "CHI", "KA", "KAI"}

\* every text over the alphabet, up to the length bound
FloorStrings == UNION { [1..n -> FloorAlphabet] : n \in 0..MaxFloorLen }

\* the floor texts the site prints: "n KAI", "CHI KA n KAI", "a - b KAI",
\* and "-" for none
SiteFloorTexts ==
    {Dash, Missing}
      \cup { NatText(n) \o Kai : n \in 1..MaxFloor }
      \cup { ChiKa \o NatText(n) \o Kai : n \in 1..MaxFloor }
      \cup { NatText(a) \o Dash \o NatText(b) \o Kai : a, b \in 1..MaxFloor }

\* map(float, parts) unpacked into two names: the ValueError of a wrong
\* number of parts or of a part that is no number
RangeFails(parts) ==
    \/ Len(parts) # 2
    \/ \E i \in 1..Len(parts) : PyFloatFails(parts[i])

\* parse_floor with the test for a range made before the test for the
\* basement marker
parse_floor_RangeFirst(floor_value) ==
    IF floor_value = Missing \/ floor_value = Dash THEN NaN
    ELSE IF Contains(floor_value, Dash)
    THEN LET parts == Split(StrReplace(floor_value, Kai, <<>>), "-")
         IN  IF RangeFails(parts) THEN NaN
             ELSE DecHalf(DecAdd(PyFloat(parts[1]), PyFloat(parts[2])))
    ELSE IF Contains(floor_value, ChiKa)
    THEN LET rest == StrReplace(StrReplace(floor_value, ChiKa, <<>>), Kai, <<>>)
         IN  IF PyFloatFails(rest) THEN NaN ELSE DecNeg(PyFloat(rest))
    ELSE LET rest == StrReplace(floor_value, Kai, <<>>)
         IN  IF PyFloatFails(rest) THEN NaN ELSE PyFloat(rest)

parse_floor(floor_value) ==
    IF floor_value = Missing \/ floor_value = Dash THEN NaN
    ELSE IF Contains(floor_value, ChiKa)
    THEN LET rest == StrReplace(StrReplace(floor_value, ChiKa, <<>>), Kai, <<>>)
         IN  IF PyFloatFails(rest) THEN NaN ELSE DecNeg(PyFloat(rest))
    ELSE IF Contains(floor_value, Dash)
    THEN LET parts == Split(StrReplace(floor_value, Kai, <<>>), "-")
         IN  IF RangeFails(parts) THEN NaN
             ELSE DecHalf(DecAdd(PyFloat(parts[1]), PyFloat(parts[2])))
    ELSE LET rest == StrReplace(floor_value, Kai, <<>>)
         IN  IF PyFloatFails(rest) THEN NaN ELSE PyFloat(rest)

\* the values of a column that are not NaN, in ascending order
RECURSIVE SortedValues(_)
SortedValues(col) ==
    LET defined == { i \in 1..Len(col) : ~col[i].nan }
    IN  IF defined = {} THEN <<>>
        ELSE LET i == CHOOSE j \in defined :
                        \A k \in defined : DecLeq(col[j], col[k])
             IN  <<col[i]>> \o
                 SortedValues([k \in 1..(Len(col) - 1) |->
                                 IF k < i THEN col[k] ELSE col[k + 1]])

\* Series.median() with the lower middle value taken for an even count
Median_LowerMiddle(col) ==
    LET v == SortedValues(col)
        n == Len(v)
    IN  IF n = 0 THEN NaN ELSE v[(n + 1) \div 2]

\* Series.median(): NaN skipped; the middle value, or the mean of the two
\* middle values; NaN when no value is left
Median(col) ==
    LET v == SortedValues(col)
        n == Len(v)
    IN  IF n = 0 THEN NaN
        ELSE IF n % 2 = 1 THEN v[(n + 1) \div 2]
        ELSE DecHalf(DecAdd(v[n \div 2], v[n \div 2 + 1]))

\* Series.fillna(value)
FillNa(col, value) == [i \in 1..Len(col) |-> IF col[i].nan THEN value ELSE col[i]]

InitFloor ==
    /\ CollectorIdle
    /\ property_df \in
         { <<[floor |-> f]>> : f \in FloorStrings }
           \cup UNION { [1..n -> [floor : SiteFloorTexts]] : n \in 0..MaxFloorRows }
    /\ result_df = <<>>
    /\ parsed = <<>>
    /\ exc = None
    /\ npc = "call"

process_floor_data ==
    /\ npc = "call"
    /\ LET floor == [i \in 1..Len(property_df) |-> parse_floor(property_df[i].floor)]
           median_floor == Median(floor)
       IN  /\ parsed' = floor
           /\ result_df' = [i \in 1..Len(property_df) |->
                              [floor |-> FillNa(floor, median_floor)[i]]]
    /\ npc' = "returned"
    /\ UNCHANGED <<property_df, exc, collector_vars>>

NextFloor == process_floor_data

SpecFloor == InitFloor /\ [][NextFloor]_vars

----------------------------------------------------------------------------
(* Properties of process_floor_data *)

AllDigits(s) == s # <<>> /\ \A i \in 1..Len(s) : IsDigit(s[i])

\* the text left of a floor text once every basement marker and every floor
\* suffix is deleted: defined without StrReplace, for the texts in which
\* "CHI" and "KA" occur only as the marker "CHI KA"
MarkersPaired(v) ==
    \A k \in 1..Len(v) :
        /\ v[k] = "CHI" => (k < Len(v) /\ v[k + 1] = "KA")
        /\ v[k] = "KA" => (k > 1 /\ v[k - 1] = "CHI")

NotMarker(t) == t \notin {"CHI", "KA", "KAI"}

Remainder(v) == SelectSeq(v, NotMarker)

HasMarker(v) == \E k \in 1..Len(v) : v[k] = "CHI"

HasHyphen(v) == \E k \in 1..Len(v) : v[k] = "-"

\* a - b with both endpoints digit strings
IsRange(s) ==
    \E k \in 2..(Len(s) - 1) :
        s[k] = "-" /\ AllDigits(SubSeq(s, 1, k - 1)) /\ AllDigits(Drop(s, k))

RangeMean(s) ==
    LET k == CHOOSE j \in 2..(Len(s) - 1) : s[j] = "-"
    IN  Dec((DigitsValue(SubSeq(s, 1, k - 1)) + DigitsValue(Drop(s, k))) * 5, 1)

\* an optional minus sign and digits
IsNumber(s) == AllDigits(s) \/ (s # <<>> /\ s[1] = "-" /\ AllDigits(Tail(s)))

NumberValue(s) ==
    IF s[1] = "-" THEN Dec(0 - DigitsValue(Tail(s)), 0) ELSE Dec(DigitsValue(s), 0)

\* what the rules of parse_floor give for a floor cell, in priority order
FloorByRules(v) ==
    IF v = Missing \/ v = Dash THEN NaN
    ELSE IF ~MarkersPaired(v) THEN NaN
    ELSE IF HasMarker(v)
         THEN (IF IsNumber(Remainder(v)) THEN DecNeg(NumberValue(Remainder(v))) ELSE NaN)
    ELSE IF HasHyphen(v)
         THEN (IF IsRange(Remainder(v)) THEN RangeMean(Remainder(v)) ELSE NaN)
    ELSE IF IsNumber(Remainder(v)) THEN NumberValue(Remainder(v)) ELSE NaN

\* C7: for every floor cell parse_floor returns a value (it does not raise):
\* NaN for a missing cell or "-"; else, with the basement marker, the
\* negative of the number left beside marker and suffix; else, with a hyphen,
\* the mean of the two endpoints; else the number; NaN whenever what is left
\* is no number (a basement text holding a range, a range with an empty or
\* an extra endpoint).  The site's forms are spelled out.
C7_ParseFloorRules ==
    npc = "returned" =>
      /\ Len(parsed) = Len(property_df)
      /\ \A i \in 1..Len(property_df) :
           LET v == property_df[i].floor
               p == parsed[i]
           IN  /\ p = FloorByRules(v)
               /\ \A n \in 1..MaxFloor :
                    /\ v = ChiKa \o NatText(n) \o Kai => p = Dec(0 - n, 0)
                    /\ v = ChiKa \o Dash \o NatText(n) \o Kai => p = Dec(n, 0)
                    /\ v = NatText(n) \o Kai => p = Dec(n, 0)
                    /\ v = NatText(n) \o Dash \o Kai => p = NaN
                    /\ v = Dash \o NatText(n) \o Kai => p = NaN
               /\ \A a, b \in 1..MaxFloor :
                    /\ v = NatText(a) \o Dash \o NatText(b) \o Kai
                         => p = Dec((a + b) * 5, 1)
                    /\ v = ChiKa \o NatText(a) \o Dash \o NatText(b) => p = NaN
                    /\ v = NatText(a) \o Dash \o NatText(b) \o Dash \o NatText(a)
                         => p = NaN

\* the three rules met: a basement floor, a range, and a basement text that
\* holds a hyphen
C7_Witness ==
    /\ npc = "returned"
    /\ property_df = <<[floor |-> <<"CHI", "KA", "-", "2", "KAI">>]>>
    /\ parsed = <<Dec(2, 0)>>

DecLess(a, b) == ~DecLeq(b, a)

\* m is the median of the values of col that are not NaN
IsMedian(m, col) ==
    LET D == { i \in 1..Len(col) : ~col[i].nan }
        n == Cardinality(D)
        Below(x) == Cardinality({ k \in D : DecLess(col[k], x) })
        Above(x) == Cardinality({ k \in D : DecLess(x, col[k]) })
    IN  /\ n > 0
        /\ ~m.nan
        /\ IF n % 2 = 1
           THEN \E i \in D : m = col[i] /\ 2 * Below(m) < n /\ 2 * Above(m) < n
           ELSE \E i, j \in D :
                  /\ i # j
                  /\ DecLeq(col[i], col[j])
                  /\ m = DecHalf(DecAdd(col[i], col[j]))
                  /\ 2 * Below(col[i]) < n /\ 2 * Above(col[i]) <= n
                  /\ 2 * Above(col[j]) < n /\ 2 * Below(col[j]) <= n

Imputed ==
    \A i \in 1..Len(property_df) :
        /\ ~result_df[i].floor.nan
        /\ ~parsed[i].nan => result_df[i].floor = parsed[i]
        /\ parsed[i].nan => IsMedian(result_df[i].floor, parsed)

\* C8 as claimed: after process_floor_data no row has an undefined floor: a
\* row that parsed to a value keeps it, a row that parsed to undefined holds
\* the median of the defined values.
C8_NoUndefinedFloor == npc = "returned" => Imputed

\* C8 amended: the same, for a frame in which some floor parsed to a value;
\* in a frame in which none did, every row stays undefined.
C8_ImputedWhenSomeDefined ==
    npc = "returned" =>
      /\ Len(result_df) = Len(property_df)
      /\ IF \E i \in 1..Len(parsed) : ~parsed[i].nan
         THEN Imputed
         ELSE \A i \in 1..Len(property_df) : result_df[i].floor.nan

\* a frame of three rows: two floors that differ and one undefined, which
\* holds their mean
C8_Witness ==
    /\ npc = "returned"
    /\ Len(parsed) = 3
    /\ parsed[1] = Dec(1, 0) /\ parsed[2] = Dec(2, 0) /\ parsed[3].nan
    /\ result_df[3].floor = Dec(15, 1)

----------------------------------------------------------------------------
(* extract_address_components: the address column is split by three
   regular-expression searches, each made on the whole address; the town
   becomes indicator columns and the other columns are dropped.
   Characters: "TO" "DO" "FU" "KEN" are the region suffixes, "SHI" "KU"
   "CHO" "SON" the municipality suffixes, " " is white space, any other
   token an ordinary character. *)

MaxAddrLen == 6
MaxAddrRows == 2

RegionSuffixes == {"TO", "DO", "FU", "KEN"}

MunicipalitySuffixes == {"SHI", "KU", "CHO", "SON"}

AddressAlphabet == {"KEN", "SHI", "CHO", "a", " "}

AddressStrings == UNION { [1..n -> AddressAlphabet] : n \in 0..MaxAddrLen }

\* addresses of the shapes the site shows: region, municipality, locality;
\* a municipality whose name starts with a suffix character; no municipality
SiteAddresses ==
    { <<"a", "KEN", "a", "SHI", "a">>,
      <<"a", "KEN", "a", "SHI", "a", "a">>,
      <<"a", "KEN", "a", "SHI", "a", "CHO">>,
      <<"a", "KEN", "SHI", "a", "SHI", "a">>,
      <<"a", "KEN", "a">> }

\* code-point order of the characters, by which get_dummies sorts the towns
CodePoint(t) ==
    CASE t = " " -> 1
      [] t = "a" -> 2
      [] t = "KU" -> 3
      [] t = "SHI" -> 4
      [] t = "FU" -> 5
      [] t = "SON" -> 6
      [] t = "CHO" -> 7
      [] t = "KEN" -> 8
      [] t = "DO" -> 9
      [] t = "TO" -> 10

IntMin(S) == CHOOSE x \in S : \A y \in S : x <= y

\* the number of white-space characters of s from position i on
RECURSIVE WhiteRun(_, _)
WhiteRun(s, i) ==
    IF i > Len(s) \/ s[i] # " " THEN 0 ELSE 1 + WhiteRun(s, i + 1)

\* ^(.+?[region suffix]): the shortest prefix of two or more characters that
\* ends with a region suffix
extract_prefecture(s) ==
    LET ends == { k \in 2..Len(s) : s[k] \in RegionSuffixes }
    IN  IF ends = {} THEN Missing ELSE SubSeq(s, 1, IntMin(ends))

\* [region suffix]\s*([^municipality suffix]+?[municipality suffix]): from
\* the leftmost region suffix that is followed by at least one character
\* that is no municipality suffix and then by a municipality suffix; the
\* white space after the region suffix is skipped, but for one character
\* when nothing else precedes the municipality suffix
extract_city(s) ==
    LET End(i) == { h \in (i + 2)..Len(s) :
                      /\ s[h] \in MunicipalitySuffixes
                      /\ \A j \in (i + 1)..(h - 1) : s[j] \notin MunicipalitySuffixes }
        starts == { i \in 1..Len(s) : s[i] \in RegionSuffixes /\ End(i) # {} }
    IN  IF starts = {} THEN Missing
        ELSE LET i == IntMin(starts)
                 h == IntMin(End(i))
                 w == IntMin({WhiteRun(s, i + 1), h - i - 2})
             IN  SubSeq(s, i + 1 + w, h)

\* [municipality suffix]\s*(.+): from the leftmost municipality suffix that
\* is not the last character, all that follows it; the white space after
\* the suffix is skipped, but for one character when nothing else follows
extract_town(s) ==
    LET starts == { i \in 1..(Len(s) - 1) : s[i] \in MunicipalitySuffixes }
    IN  IF starts = {} THEN Missing
        ELSE LET i == IntMin(starts)
                 w == IntMin({WhiteRun(s, i + 1), Len(s) - i - 1})
             IN  SubSeq(s, i + 1 + w, Len(s))

\* str comparison: by code point, a proper prefix first
RECURSIVE StrLess(_, _)
StrLess(a, b) ==
    IF b = <<>> THEN FALSE
    ELSE IF a = <<>> THEN TRUE
    ELSE IF a[1] # b[1] THEN CodePoint(a[1]) < CodePoint(b[1])
    ELSE StrLess(Tail(a), Tail(b))

\* the indicator columns of get_dummies(columns=["town"], drop_first=True):
\* the distinct towns, but the least of them
DummyColumns(towns) ==
    LET values == { towns[i] : i \in 1..Len(towns) } \ {Missing}
    IN  { t \in values : \E u \in values : StrLess(u, t) }

InitAddress ==
    /\ CollectorIdle
    /\ property_df \in
         { <<[address |-> a]>> : a \in AddressStrings }
           \cup UNION { [1..n -> [address : SiteAddresses]] : n \in 0..MaxAddrRows }
    /\ result_df = <<>>
    /\ parsed = <<>>
    /\ exc = None
    /\ npc = "call"

extract_address_components ==
    /\ npc = "call"
    /\ LET components == [i \in 1..Len(property_df) |->
                            [prefecture |-> extract_prefecture(property_df[i].address),
                             city |-> extract_city(property_df[i].address),
                             town |-> extract_town(property_df[i].address)]]
           columns == DummyColumns([i \in 1..Len(property_df) |-> components[i].town])
       IN  /\ parsed' = components
           /\ result_df' = [i \in 1..Len(property_df) |->
                              [t \in columns |-> IF components[i].town = t THEN 1 ELSE 0]]
    /\ npc' = "returned"
    /\ UNCHANGED <<property_df, exc, collector_vars>>

NextAddress == extract_address_components

SpecAddress == InitAddress /\ [][NextAddress]_vars

----------------------------------------------------------------------------
(* Properties of extract_address_components *)

IsWhite(s) == \A k \in 1..Len(s) : s[k] = " "

HasMunicipalitySuffix(a) == \E k \in 1..Len(a) : a[k] \in MunicipalitySuffixes

\* a is x, white space, y, white space, z
Consecutive(a, x, y, z) ==
    \E i, j \in 0..Len(a) :
        /\ Len(x) <= i /\ i + Len(y) <= j /\ j + Len(z) = Len(a)
        /\ SubSeq(a, 1, Len(x)) = x
        /\ IsWhite(SubSeq(a, Len(x) + 1, i))
        /\ SubSeq(a, i + 1, i + Len(y)) = y
        /\ IsWhite(SubSeq(a, i + Len(y) + 1, j))
        /\ SubSeq(a, j + 1, Len(a)) = z

\* a has y at some place and ends, after white space, with z
Follows(a, y, z) ==
    \E i, j \in 0..Len(a) :
        /\ i + Len(y) <= j /\ j + Len(z) = Len(a)
        /\ SubSeq(a, i + 1, i + Len(y)) = y
        /\ IsWhite(SubSeq(a, i + Len(y) + 1, j))
        /\ SubSeq(a, j + 1, Len(a)) = z

\* C9: extract_address_components returns for every address (it does not
\* raise); a town is the text that follows the municipality, which is the
\* text from the region suffix to the municipality suffix that ends it;
\* when region, municipality and town all match, they are consecutive parts
\* of the address that do not overlap; an address without a municipality
\* suffix has no town.
C9_TownFollowsMunicipality ==
    /\ npc # "raised"
    /\ npc = "returned" =>
         \A i \in 1..Len(property_df) :
             LET a == property_df[i].address
                 c == parsed[i]
             IN  /\ c.town # Missing =>
                       c.city # Missing /\ Follows(a, c.city, c.town)
                 /\ (c.prefecture # Missing /\ c.city # Missing /\ c.town # Missing)
                       => Consecutive(a, c.prefecture, c.city, c.town)
                 /\ ~HasMunicipalitySuffix(a) => c.town = Missing

====
